---- MODULE Spec2Model ----
(***************************************************************************)
(* Model of plugin/builtin/helmchartinflationgenerator/                    *)
(* HelmChartInflationGenerator.go: Config resolves the plugin's fields,    *)
(* Generate runs "helm version", optionally "helm pull", then              *)
(* "helm template", and removes the temporary directory on the way out.    *)
(*                                                                         *)
(* A Go string is a sequence of tokens; a token stands for one character   *)
(* or for an opaque run of characters that holds no "/".                   *)
(* The empty string is << >>.                                              *)
(***************************************************************************)
EXTENDS Integers, Sequences, FiniteSets, TLC

VARIABLES input, pc, plugin, err, fault, calls, local, dirAtCheck,
          fsDirs, fsFiles, helmVersionOut, lastAccess, argsIn, argsOut

vars == <<input, pc, plugin, err, fault, calls, local, dirAtCheck,
          fsDirs, fsFiles, helmVersionOut, lastAccess, argsIn, argsOut>>

\* Longest "helm version" output enumerated, in tokens.
MaxVerLen == 5

\* Longest list of extra arguments enumerated.
MaxExtraArgs == 2

Runs == {1, 2}

\* ------------------------------------------------------------------------
\* Strings and paths

Digits == {"0", "1", "2", "3", "4", "5", "6", "7", "8", "9"}

VerAlphabet == {"v", "3", "0", ".", "x"}

RECURSIVE StringsUpTo(_, _)
StringsUpTo(alphabet, n) ==
  IF n = 0 THEN {<< >>}
  ELSE LET shorter == StringsUpTo(alphabet, n - 1)
       IN shorter \cup {Append(s, c) : s \in shorter, c \in alphabet}

RECURSIVE SplitAcc(_, _, _, _)
SplitAcc(s, sep, cur, acc) ==
  IF s = << >> THEN Append(acc, cur)
  ELSE IF Head(s) = sep THEN SplitAcc(Tail(s), sep, << >>, Append(acc, cur))
  ELSE SplitAcc(Tail(s), sep, Append(cur, Head(s)), acc)

\* strings.Split(s, sep) for a one-character separator
Split(s, sep) == SplitAcc(s, sep, << >>, << >>)

RECURSIVE JoinWith(_, _)
\* strings.Join(elems, sep)
JoinWith(elems, sep) ==
  IF elems = << >> THEN << >>
  ELSE IF Len(elems) = 1 THEN elems[1]
  ELSE elems[1] \o <<sep>> \o JoinWith(Tail(elems), sep)

RECURSIVE CleanSegs(_, _, _)
CleanSegs(segs, out, rooted) ==
  IF segs = << >> THEN out
  ELSE LET e == Head(segs)
           rest == Tail(segs)
       IN IF e = << >> \/ e = <<".">> THEN CleanSegs(rest, out, rooted)
          ELSE IF e = <<"..">> \/ e = <<".", ".">>
               THEN IF out # << >> /\ out[Len(out)] # <<"..">>
                    THEN CleanSegs(rest, SubSeq(out, 1, Len(out) - 1), rooted)
                    ELSE IF rooted THEN CleanSegs(rest, out, rooted)
                    ELSE CleanSegs(rest, Append(out, <<"..">>), rooted)
          ELSE CleanSegs(rest, Append(out, e), rooted)

\* path.Clean
Clean(s) ==
  LET rooted == s # << >> /\ s[1] = "/"
      body == JoinWith(CleanSegs(Split(s, "/"), << >>, rooted), "/")
      res == (IF rooted THEN <<"/">> ELSE << >>) \o body
  IN IF res = << >> THEN <<".">> ELSE res

RECURSIVE NonEmpty(_)
NonEmpty(elems) ==
  IF elems = << >> THEN << >>
  ELSE IF Head(elems) = << >> THEN NonEmpty(Tail(elems))
  ELSE <<Head(elems)>> \o NonEmpty(Tail(elems))

\* path.Join: empty elements are ignored, the result is cleaned
PathJoin(elems) ==
  IF NonEmpty(elems) = << >> THEN << >>
  ELSE Clean(JoinWith(NonEmpty(elems), "/"))

IsPrefix(a, b) == Len(a) <= Len(b) /\ SubSeq(b, 1, Len(a)) = a

\* path x is dir itself or lies below it
Under(x, dir) ==
  /\ IsPrefix(dir, x)
  /\ \/ Len(x) = Len(dir)
     \/ x[Len(dir) + 1] = "/"
     \/ dir[Len(dir)] = "/"

\* ------------------------------------------------------------------------
\* The plugin struct and its configuration

NoErr == [kind |-> "nil", msg |-> << >>]

ZeroPlugin ==
  [ChartName |-> << >>, ChartVersion |-> << >>, ChartRepoName |-> << >>,
   ChartRepoURL |-> << >>, ChartHome |-> << >>, HelmBin |-> << >>,
   HelmHome |-> << >>, Values |-> << >>, ReleaseName |-> << >>,
   ReleaseNamespace |-> << >>, ExtraArgs |-> << >>, tmpDir |-> << >>]

\* filesys.NewTmpConfirmedDir: a fresh directory below the system's temp dir
TmpNames == {"kustomize-1", "kustomize-2"}

TmpPath(name) == <<"/", "tmp", "/", name>>

applyDefaultsSharedHome(in, tmp) ==
  LET home == IF in.ChartHome = << >>
              THEN PathJoin(<<<<"/", "tmp">>, <<"chart">>>>) ELSE in.ChartHome
  IN [in EXCEPT
       !.tmpDir = tmp,
       !.ChartHome = home,
       !.ChartRepoName = IF @ = << >> THEN <<"stable">> ELSE @,
       !.HelmBin = IF @ = << >> THEN <<"helm">> ELSE @,
       !.HelmHome = IF @ = << >> THEN PathJoin(<<<<"/", "tmp">>, <<".", "helm">>>>) ELSE @,
       !.Values = IF @ = << >>
                  THEN PathJoin(<<home, in.ChartName, <<"values.yaml">>>>)
                  ELSE @]

\* Config, lines 54-72: the defaults of the fields left unset
applyDefaults(in, tmp) ==
  LET home == IF in.ChartHome = << >>
              THEN PathJoin(<<tmp, <<"chart">>>>) ELSE in.ChartHome
  IN [in EXCEPT
       !.tmpDir = tmp,
       !.ChartHome = home,
       !.ChartRepoName = IF @ = << >> THEN <<"stable">> ELSE @,
       !.HelmBin = IF @ = << >> THEN <<"helm">> ELSE @,
       !.HelmHome = IF @ = << >> THEN PathJoin(<<tmp, <<".", "helm">>>>) ELSE @,
       !.Values = IF @ = << >>
                  THEN PathJoin(<<home, in.ChartName, <<"values.yaml">>>>)
                  ELSE @]

chartPath(p) == PathJoin(<<p.ChartHome, p.ChartName>>)

\* ------------------------------------------------------------------------
\* runHelmCommand

\* os.Environ() of the process that runs the plugin
OsEnviron == <<<<"PATH=/usr/bin">>, <<"HOME=/home/user">>, <<"KUBECONFIG=/home/user/.kube/config">>>>

\* lines 81-85: cmd.Env after the append; exec.Command leaves cmd.Env nil
cmdEnv(p) ==
  << >> \o <<<<"HELM_CONFIG_HOME=">> \o p.HelmHome,
             <<"HELM_CACHE_HOME=">> \o p.HelmHome \o <<"/", ".", "cache">>,
             <<"HELM_DATA_HOME=">> \o p.HelmHome \o <<"/", ".", "data">>>>

\* os/exec: the child gets cmd.Env when it is not nil, os.Environ() otherwise
childEnv(env) == IF env # << >> THEN env ELSE OsEnviron

Range(s) == {s[i] : i \in DOMAIN s}

\* one execution of the helm binary, as the operating system sees it
invocation(p, args, ok) ==
  [bin |-> p.HelmBin, args |-> args, env |-> Range(childEnv(cmdEnv(p))), ok |-> ok]

\* lines 88-92: the error of a failed command
processError(p, args) ==
  [kind |-> "process",
   msg |-> <<"failed to run command ">> \o p.HelmBin \o <<" ">> \o JoinWith(args, " ")]

\* ------------------------------------------------------------------------
\* checkHelmVersion

RECURSIVE digitsEnd(_, _)
\* last index of the run of digits that starts at i; i - 1 when there is none
digitsEnd(s, i) ==
  IF i <= Len(s) /\ s[i] \in Digits THEN digitsEnd(s, i + 1) ELSE i - 1

RECURSIVE groupsEnd(_, _)
\* (\.\d+)* taken greedily after a match that ends at e
groupsEnd(s, e) ==
  IF e + 1 <= Len(s) /\ s[e + 1] = "." /\ digitsEnd(s, e + 2) >= e + 2
  THEN groupsEnd(s, digitsEnd(s, e + 2))
  ELSE e

\* end of the match of v\d+(\.\d+)+ that starts at i; 0 when there is none
matchAt(s, i) ==
  IF i <= Len(s) /\ s[i] = "v" /\ digitsEnd(s, i + 1) >= i + 1
  THEN LET d == digitsEnd(s, i + 1)
           g == groupsEnd(s, d)
       IN IF g > d THEN g ELSE 0
  ELSE 0

RECURSIVE findFrom(_, _)
findFrom(s, i) ==
  IF i > Len(s) THEN << >>
  ELSE IF matchAt(s, i) # 0 THEN SubSeq(s, i, matchAt(s, i))
  ELSE findFrom(s, i + 1)

\* regexp.Find: the leftmost match, nil (here << >>) when there is none
Find(s) == findFrom(s, 1)

majorIsPrefixed(major) == major # << >> /\ major[1] = "3"

\* line 179: majorVersion != "3"
majorIs3(major) == major = <<"3">>

\* lines 173-182, after the command succeeded with output stdout
checkHelmVersion(stdout) ==
  LET m == Find(stdout)
  IN IF Len(m) < 1
     THEN [panic |-> TRUE, err |-> NoErr]
     ELSE LET v == SubSeq(m, 2, Len(m))
              majorVersion == Split(v, ".")[1]
          IN IF ~majorIs3(majorVersion)
             THEN [panic |-> FALSE,
                   err |-> [kind |-> "version",
                            msg |-> <<"this plugin requires helm V3 but got v">> \o v]]
             ELSE [panic |-> FALSE, err |-> NoErr]

\* ------------------------------------------------------------------------
\* checkLocalChart and the argument lists

checkLocalChartNever(p, dirs) == FALSE

\* lines 158-165: os.Stat succeeds and the entry is a directory
checkLocalChart(p, dirs) == chartPath(p) \in dirs

getPullCommandArgsAlias(p) ==
  <<<<"pull">>, <<"--untar">>, <<"--untardir">>, p.ChartHome>>
  \o (IF p.ChartVersion # << >> THEN <<<<"--version">>, p.ChartVersion>> ELSE << >>)
  \o (IF p.ChartRepoURL # << >> THEN <<<<"--repo">>, p.ChartRepoURL>> ELSE << >>)
  \o <<p.ChartRepoName \o <<"/">> \o p.ChartName>>

\* lines 140-154
getPullCommandArgs(p) ==
  LET args == <<<<"pull">>, <<"--untar">>, <<"--untardir">>, p.ChartHome>>
      withVersion == IF p.ChartVersion # << >>
                     THEN args \o <<<<"--version">>, p.ChartVersion>>
                     ELSE args
      withRepo == IF p.ChartRepoURL # << >>
                  THEN withVersion \o <<<<"--repo">>, p.ChartRepoURL>>
                  ELSE withVersion
      chartName == IF p.ChartRepoURL # << >>
                   THEN p.ChartName
                   ELSE p.ChartRepoName \o <<"/">> \o p.ChartName
  IN Append(withRepo, chartName)

getTemplateCommandArgsAlways(p) ==
  <<<<"template">>>>
  \o (IF p.ReleaseName # << >> THEN <<p.ReleaseName>> ELSE << >>)
  \o <<PathJoin(<<p.ChartHome, p.ChartName>>)>>
  \o (IF p.ReleaseNamespace # << >> THEN <<<<"--namespace">>, p.ReleaseNamespace>> ELSE << >>)
  \o <<<<"--values">>, p.Values>>
  \o p.ExtraArgs

\* lines 124-138
getTemplateCommandArgs(p) ==
  LET args == <<<<"template">>>>
      withRelease == IF p.ReleaseName # << >>
                     THEN Append(args, p.ReleaseName) ELSE args
      withChart == Append(withRelease, PathJoin(<<p.ChartHome, p.ChartName>>))
      withNamespace == IF p.ReleaseNamespace # << >>
                       THEN withChart \o <<<<"--namespace">>, p.ReleaseNamespace>>
                       ELSE withChart
      withValues == IF p.Values # << >>
                    THEN withNamespace \o <<<<"--values">>, p.Values>>
                    ELSE withNamespace
  IN withValues \o p.ExtraArgs

RemoveAllSkipped(entries, root) == entries

\* os.RemoveAll(root) on a set of paths; RemoveAll("") removes nothing
RemoveAll(entries, root) ==
  IF root = << >> THEN entries ELSE {x \in entries : ~Under(x, root)}

\* ------------------------------------------------------------------------
\* The inputs a run can be given

Opt(s) == {<< >>, s}

\* the fields a well-formed YAML configuration can set
ConfigArgs ==
  [ChartName : Opt(<<"nginx">>), ChartVersion : Opt(<<"1.2.3">>),
   ChartRepoName : Opt(<<"bitnami">>),
   ChartRepoURL : Opt(<<"https://charts.example.com">>),
   ChartHome : Opt(<<"charts">>), HelmBin : Opt(<<"helm3">>),
   HelmHome : Opt(<<"helmhome">>), Values : Opt(<<"my-values.yaml">>),
   ReleaseName : Opt(<<"rel">>), ReleaseNamespace : Opt(<<"prod">>),
   ExtraArgs : Opt(<<<<"--debug">>, <<"--no-hooks">>>>), tmpDir : {<< >>}]

\* a configuration the YAML decoder rejects
Malformed == [wellFormed |-> FALSE, args |-> ZeroPlugin]

WellFormed(argSet) == {[wellFormed |-> TRUE, args |-> a] : a \in argSet}

\* the configurations handed to Config
ConfigInputs == WellFormed(ConfigArgs) \cup {Malformed}

\* a chart name that climbs out of the default chart home
EscapingName == <<"..", "/", "..", "/", "kustomize-2", "/", "chart", "/", "nginx">>

\* the fields set by two runs side by side
ConcArgs ==
  [ChartName : {<<"nginx">>, EscapingName}, ChartVersion : {<< >>},
   ChartRepoName : {<< >>}, ChartRepoURL : {<< >>},
   ChartHome : Opt(<<"charts">>), HelmBin : {<< >>},
   HelmHome : Opt(<<"helmhome">>), Values : {<< >>},
   ReleaseName : {<< >>}, ReleaseNamespace : {<< >>},
   ExtraArgs : {<< >>}, tmpDir : {<< >>}]

\* what the installed helm binary prints for "version -c --short"
VersionSamples ==
  {<<"v", "3", ".", "1", ".", "0">>, <<"v", "2", ".", "1", "6">>,
   <<"v", "3", "0", ".", "1">>, <<"x">>, << >>}

\* the file system before the run: the user's chart home "charts" holds the
\* chart as a directory, holds a plain file of that name, or holds nothing
FsWorlds ==
  {[dirs |-> {<<"charts">>, <<"charts", "/", "nginx">>}, files |-> {}],
   [dirs |-> {<<"charts">>}, files |-> {<<"charts", "/", "nginx">>}],
   [dirs |-> {<<"charts">>}, files |-> {}]}

NoAccess == [run |-> 0, paths |-> {}]

NoArgs == <<<<"unset">>>>

InitRest ==
  /\ plugin = [r \in Runs |-> ZeroPlugin]
  /\ err = [r \in Runs |-> NoErr]
  /\ fault = [r \in Runs |-> FALSE]
  /\ calls = [r \in Runs |-> << >>]
  /\ local = [r \in Runs |-> "unchecked"]
  /\ dirAtCheck = [r \in Runs |-> "unchecked"]
  /\ lastAccess = NoAccess
  /\ \E w \in FsWorlds : fsDirs = w.dirs /\ fsFiles = w.files

\* one run, any configuration
Init ==
  /\ input \in [Runs -> ConfigInputs]
  /\ input[2] = Malformed
  /\ pc = [r \in Runs |-> IF r = 1 THEN "config" ELSE "off"]
  /\ helmVersionOut \in VersionSamples
  /\ argsIn = ZeroPlugin
  /\ argsOut = [pull |-> NoArgs, template |-> NoArgs]
  /\ InitRest

\* ------------------------------------------------------------------------
\* Config

ConfigMalformed(r) ==
  /\ pc[r] = "config"
  /\ ~input[r].wellFormed
  /\ err' = [err EXCEPT ![r] = [kind |-> "yaml", msg |-> << >>]]
  /\ pc' = [pc EXCEPT ![r] = "configFailed"]
  /\ lastAccess' = [run |-> r, paths |-> {}]
  /\ UNCHANGED <<input, plugin, fault, calls, local, dirAtCheck, fsDirs,
                 fsFiles, helmVersionOut, argsIn, argsOut>>

ConfigTmpDirFails(r) ==
  /\ pc[r] = "config"
  /\ input[r].wellFormed
  /\ plugin' = [plugin EXCEPT ![r] = input[r].args]
  /\ err' = [err EXCEPT ![r] = [kind |-> "tmpdir", msg |-> << >>]]
  /\ pc' = [pc EXCEPT ![r] = "configFailed"]
  /\ lastAccess' = [run |-> r, paths |-> {}]
  /\ UNCHANGED <<input, fault, calls, local, dirAtCheck, fsDirs, fsFiles,
                 helmVersionOut, argsIn, argsOut>>

ConfigResolve(r) ==
  /\ pc[r] = "config"
  /\ input[r].wellFormed
  /\ \E name \in TmpNames :
       LET tmp == TmpPath(name)
       IN /\ tmp \notin fsDirs
          /\ fsDirs' = fsDirs \cup {tmp}
          /\ lastAccess' = [run |-> r, paths |-> {tmp}]
          /\ IF input[r].args.ChartName = << >>
             THEN /\ plugin' = [plugin EXCEPT ![r] = [input[r].args EXCEPT !.tmpDir = tmp]]
                  /\ err' = [err EXCEPT ![r] =
                               [kind |-> "chartName",
                                msg |-> <<"chartName cannot be empty">>]]
                  /\ pc' = [pc EXCEPT ![r] = "configFailed"]
             ELSE /\ plugin' = [plugin EXCEPT ![r] = applyDefaults(input[r].args, tmp)]
                  /\ err' = err
                  /\ pc' = [pc EXCEPT ![r] = "version"]
  /\ UNCHANGED <<input, fault, calls, local, dirAtCheck, fsFiles,
                 helmVersionOut, argsIn, argsOut>>

\* ------------------------------------------------------------------------
\* Generate

VersionArgs == <<<<"version">>, <<"-c">>, <<"--short">>>>

CheckHelmVersion(r) ==
  /\ pc[r] = "version"
  /\ lastAccess' = [run |-> r, paths |-> {plugin[r].HelmHome}]
  /\ \E ok \in BOOLEAN :
       /\ calls' = [calls EXCEPT ![r] = Append(@, invocation(plugin[r], VersionArgs, ok))]
       /\ IF ~ok
          THEN /\ err' = [err EXCEPT ![r] = processError(plugin[r], VersionArgs)]
               /\ fault' = fault
               /\ pc' = [pc EXCEPT ![r] = "cleanup"]
          ELSE LET res == checkHelmVersion(helmVersionOut)
               IN /\ err' = [err EXCEPT ![r] = res.err]
                  /\ fault' = [fault EXCEPT ![r] = res.panic]
                  /\ pc' = [pc EXCEPT ![r] =
                              IF res.panic \/ res.err # NoErr
                              THEN "cleanup" ELSE "local"]
  /\ UNCHANGED <<input, plugin, local, dirAtCheck, fsDirs, fsFiles,
                 helmVersionOut, argsIn, argsOut>>

CheckLocalChart(r) ==
  /\ pc[r] = "local"
  /\ lastAccess' = [run |-> r, paths |-> {chartPath(plugin[r])}]
  /\ dirAtCheck' = [dirAtCheck EXCEPT ![r] =
                      IF chartPath(plugin[r]) \in fsDirs THEN "dir" ELSE "nodir"]
  /\ local' = [local EXCEPT ![r] =
                 IF checkLocalChart(plugin[r], fsDirs) THEN "present" ELSE "absent"]
  /\ pc' = [pc EXCEPT ![r] =
              IF checkLocalChart(plugin[r], fsDirs) THEN "template" ELSE "pull"]
  /\ UNCHANGED <<input, plugin, err, fault, calls, fsDirs, fsFiles,
                 helmVersionOut, argsIn, argsOut>>

pullNextIgnoringError(ok) == "template"

\* lines 110-113: a failed pull ends the run, a successful one goes on
pullNext(ok) == IF ok THEN "template" ELSE "cleanup"

Pull(r) ==
  /\ pc[r] = "pull"
  /\ lastAccess' = [run |-> r,
                    paths |-> {plugin[r].HelmHome, plugin[r].ChartHome,
                               chartPath(plugin[r])}]
  /\ \E ok \in BOOLEAN :
       /\ calls' = [calls EXCEPT ![r] =
                      Append(@, invocation(plugin[r], getPullCommandArgs(plugin[r]), ok))]
       /\ IF ok
          THEN /\ fsDirs' = fsDirs \cup {plugin[r].ChartHome, chartPath(plugin[r])}
               /\ fsFiles' = fsFiles \ {chartPath(plugin[r])}
               /\ err' = err
          ELSE /\ err' = [err EXCEPT ![r] =
                            processError(plugin[r], getPullCommandArgs(plugin[r]))]
               /\ UNCHANGED <<fsDirs, fsFiles>>
       /\ pc' = [pc EXCEPT ![r] = pullNext(ok)]
  /\ UNCHANGED <<input, plugin, fault, local, dirAtCheck, helmVersionOut,
                 argsIn, argsOut>>

Template(r) ==
  /\ pc[r] = "template"
  /\ lastAccess' = [run |-> r,
                    paths |-> {plugin[r].HelmHome, chartPath(plugin[r])}]
  /\ \E ok \in BOOLEAN :
       /\ calls' = [calls EXCEPT ![r] =
                      Append(@, invocation(plugin[r], getTemplateCommandArgs(plugin[r]), ok))]
       /\ IF ok
          THEN /\ err' = err
               /\ pc' = [pc EXCEPT ![r] = "parse"]
          ELSE /\ err' = [err EXCEPT ![r] =
                            processError(plugin[r], getTemplateCommandArgs(plugin[r]))]
               /\ pc' = [pc EXCEPT ![r] = "cleanup"]
  /\ UNCHANGED <<input, plugin, fault, local, dirAtCheck, fsDirs, fsFiles,
                 helmVersionOut, argsIn, argsOut>>

\* line 121: NewResMapFromBytes accepts the rendered bytes or rejects them
NewResMap(r) ==
  /\ pc[r] = "parse"
  /\ lastAccess' = [run |-> r, paths |-> {}]
  /\ \E ok \in BOOLEAN :
       err' = [err EXCEPT ![r] =
                 IF ok THEN NoErr ELSE [kind |-> "resmap", msg |-> << >>]]
  /\ pc' = [pc EXCEPT ![r] = "cleanup"]
  /\ UNCHANGED <<input, plugin, fault, calls, local, dirAtCheck, fsDirs,
                 fsFiles, helmVersionOut, argsIn, argsOut>>

\* line 102: the deferred os.RemoveAll(p.tmpDir), run on return and on panic
Cleanup(r) ==
  /\ pc[r] = "cleanup"
  /\ lastAccess' = [run |-> r, paths |-> {plugin[r].tmpDir}]
  /\ fsDirs' = RemoveAll(fsDirs, plugin[r].tmpDir)
  /\ fsFiles' = RemoveAll(fsFiles, plugin[r].tmpDir)
  /\ pc' = [pc EXCEPT ![r] = "done"]
  /\ UNCHANGED <<input, plugin, err, fault, calls, local, dirAtCheck,
                 helmVersionOut, argsIn, argsOut>>

Next ==
  \E r \in Runs :
    \/ ConfigMalformed(r)
    \/ ConfigTmpDirFails(r)
    \/ ConfigResolve(r)
    \/ CheckHelmVersion(r)
    \/ CheckLocalChart(r)
    \/ Pull(r)
    \/ Template(r)
    \/ NewResMap(r)
    \/ Cleanup(r)

Spec == Init /\ [][Next]_vars

\* ------------------------------------------------------------------------
\* The version check over every short output

\* a configuration that names a chart and leaves the rest unset
PlainArgs == [ZeroPlugin EXCEPT !.ChartName = <<"nginx">>]

InitVersion ==
  /\ input \in [Runs -> WellFormed({PlainArgs}) \cup {Malformed}]
  /\ input[2] = Malformed
  /\ pc = [r \in Runs |-> IF r = 1 THEN "config" ELSE "off"]
  /\ helmVersionOut \in StringsUpTo(VerAlphabet, MaxVerLen)
  /\ argsIn = ZeroPlugin
  /\ argsOut = [pull |-> NoArgs, template |-> NoArgs]
  /\ InitRest

SpecVersion == InitVersion /\ [][Next]_vars

\* ------------------------------------------------------------------------
\* Two runs side by side

ConcVersionSamples == {<<"v", "3", ".", "1", ".", "0">>, <<"x">>}

InitConc ==
  /\ input \in [Runs -> WellFormed(ConcArgs) \cup {Malformed}]
  /\ pc = [r \in Runs |-> "config"]
  /\ helmVersionOut \in ConcVersionSamples
  /\ argsIn = ZeroPlugin
  /\ argsOut = [pull |-> NoArgs, template |-> NoArgs]
  /\ InitRest

SpecConc == InitConc /\ [][Next]_vars

\* ------------------------------------------------------------------------
\* The argument builders on any plugin struct

RECURSIVE SeqsUpTo(_, _)
SeqsUpTo(elems, n) ==
  IF n = 0 THEN {<< >>}
  ELSE LET shorter == SeqsUpTo(elems, n - 1)
       IN shorter \cup {Append(q, e) : q \in shorter, e \in elems}

ArgStructs ==
  [ChartName : {<<"nginx">>}, ChartVersion : Opt(<<"1.2.3">>),
   ChartRepoName : {<<"stable">>},
   ChartRepoURL : Opt(<<"https://charts.example.com">>),
   ChartHome : {<<"charts">>, <<"charts", "/">>, <<"/", "tmp", "/", "kustomize-1", "/", "chart">>},
   HelmBin : {<<"helm">>}, HelmHome : {<<"helmhome">>},
   Values : Opt(<<"my-values.yaml">>),
   ReleaseName : Opt(<<"rel">>), ReleaseNamespace : Opt(<<"prod">>),
   ExtraArgs : SeqsUpTo({<<"--debug">>, <<"--values">>}, MaxExtraArgs),
   tmpDir : {<< >>}]

InitArgs ==
  /\ input = [r \in Runs |-> Malformed]
  /\ pc = [r \in Runs |-> "off"]
  /\ helmVersionOut = << >>
  /\ argsIn \in ArgStructs
  /\ argsOut = [pull |-> NoArgs, template |-> NoArgs]
  /\ plugin = [r \in Runs |-> ZeroPlugin]
  /\ err = [r \in Runs |-> NoErr]
  /\ fault = [r \in Runs |-> FALSE]
  /\ calls = [r \in Runs |-> << >>]
  /\ local = [r \in Runs |-> "unchecked"]
  /\ dirAtCheck = [r \in Runs |-> "unchecked"]
  /\ lastAccess = NoAccess
  /\ fsDirs = {}
  /\ fsFiles = {}

BuildPullArgs ==
  /\ argsOut.pull = NoArgs
  /\ argsOut' = [argsOut EXCEPT !.pull = getPullCommandArgs(argsIn)]
  /\ UNCHANGED <<input, pc, plugin, err, fault, calls, local, dirAtCheck,
                 fsDirs, fsFiles, helmVersionOut, lastAccess, argsIn>>

BuildTemplateArgs ==
  /\ argsOut.template = NoArgs
  /\ argsOut' = [argsOut EXCEPT !.template = getTemplateCommandArgs(argsIn)]
  /\ UNCHANGED <<input, pc, plugin, err, fault, calls, local, dirAtCheck,
                 fsDirs, fsFiles, helmVersionOut, lastAccess, argsIn>>

NextArgs == BuildPullArgs \/ BuildTemplateArgs

SpecArgs == InitArgs /\ [][NextArgs]_vars

\* ------------------------------------------------------------------------
\* Properties

VersionCall == <<"version">>
PullCall == <<"pull">>
TemplateCall == <<"template">>

KindsOf(r) == [i \in DOMAIN calls[r] |-> calls[r][i].args[1]]

\* w is a word of the language v<digits>(.<digits>)+
IsVersionWord(w) ==
  /\ Len(w) >= 4
  /\ w[1] = "v"
  /\ w[2] \in Digits
  /\ w[Len(w)] \in Digits
  /\ \A i \in 2..Len(w) : w[i] \in Digits \cup {"."}
  /\ \A i \in 2..(Len(w) - 1) : ~(w[i] = "." /\ w[i + 1] = ".")
  /\ \E i \in 2..Len(w) : w[i] = "."

MatchStarts(s) ==
  {i \in 1..Len(s) : \E j \in i..Len(s) : IsVersionWord(SubSeq(s, i, j))}

HasVersionMatch(s) == MatchStarts(s) # {}

\* the leftmost match, extended as far as it goes
FirstVersion(s) ==
  LET i == CHOOSE a \in MatchStarts(s) : \A b \in MatchStarts(s) : a <= b
      ends == {j \in i..Len(s) : IsVersionWord(SubSeq(s, i, j))}
      j == CHOOSE a \in ends : \A b \in ends : b <= a
  IN SubSeq(s, i, j)

\* the digits between the "v" and the first "."
MajorOf(w) ==
  LET dot == CHOOSE k \in 2..Len(w) : w[k] = "." /\ \A m \in 2..(k - 1) : w[m] # "."
  IN SubSeq(w, 2, dot - 1)

VersionQueryRan(r) == calls[r] # << >> /\ calls[r][1].ok

VersionPassed(r) ==
  /\ VersionQueryRan(r)
  /\ HasVersionMatch(helmVersionOut)
  /\ MajorOf(FirstVersion(helmVersionOut)) = <<"3">>

\* C1: the helm invocations of a run are a prefix of version, pull (only
\* when the chart is not local), template; every invocation but the last
\* succeeded; the local check and every later invocation happen only after
\* the version check passed.
C1_PipelinePrefix ==
  \A r \in Runs :
    /\ KindsOf(r) \in {<< >>, <<VersionCall>>, <<VersionCall, PullCall>>,
                       <<VersionCall, TemplateCall>>,
                       <<VersionCall, PullCall, TemplateCall>>}
    /\ \A i \in 1..(Len(calls[r]) - 1) : calls[r][i].ok
    /\ (local[r] # "unchecked" \/ Len(calls[r]) >= 2) => VersionPassed(r)
    /\ (Len(calls[r]) >= 2 /\ calls[r][2].args[1] = PullCall) => local[r] = "absent"

C1_Witness ==
  /\ pc[1] = "done"
  /\ KindsOf(1) = <<VersionCall, PullCall>>
  /\ ~calls[1][2].ok

InsideTree(x, root) ==
  \/ x = root
  \/ Len(x) > Len(root) /\ SubSeq(x, 1, Len(root) + 1) = root \o <<"/">>

\* C2: once Generate has returned or panicked, nothing is left at or below
\* the run's temporary directory.
C2_TmpDirRemoved ==
  \A r \in Runs :
    pc[r] = "done" =>
      /\ plugin[r].tmpDir # << >>
      /\ \A x \in fsDirs \cup fsFiles : ~InsideTree(x, plugin[r].tmpDir)

C2_Witness ==
  /\ pc[1] = "done"
  /\ input[1].args.ChartHome = << >>
  /\ KindsOf(1) = <<VersionCall, PullCall, TemplateCall>>
  /\ ~calls[1][3].ok

\* C3: when a directory exists at the chart path at the time of the local
\* check, the run issues no pull, and the invocation after the version
\* query is the template invocation.
C3_NoPullWhenLocal ==
  \A r \in Runs :
    dirAtCheck[r] = "dir" =>
      /\ \A i \in DOMAIN calls[r] : calls[r][i].args[1] # PullCall
      /\ Len(calls[r]) >= 2 => calls[r][2].args[1] = TemplateCall

C3_Witness ==
  /\ dirAtCheck[1] = "dir"
  /\ Len(calls[1]) = 2
  /\ input[1].args.ChartVersion # << >>
  /\ input[1].args.ChartRepoURL # << >>

\* C4: a configuration with an empty chart name makes Config fail with the
\* missing-chart-name error without allocating a temporary directory and
\* without starting a subprocess.
C4_EmptyNameNoWork ==
  \A r \in Runs :
    (pc[r] = "configFailed" /\ input[r].wellFormed
        /\ input[r].args.ChartName = << >>) =>
      /\ err[r].kind = "chartName"
      /\ plugin[r].tmpDir = << >>
      /\ \A name \in TmpNames : TmpPath(name) \notin fsDirs
      /\ calls[r] = << >>

\* C5: when the version query succeeds and its output holds no version, the
\* run ends with an ordinary version error, not a fault, after that single
\* invocation.
C5_UnparseableIsError ==
  \A r \in Runs :
    (pc[r] = "done" /\ VersionQueryRan(r) /\ ~HasVersionMatch(helmVersionOut)) =>
      /\ ~fault[r]
      /\ err[r].kind = "version"
      /\ Len(calls[r]) = 1

IsolationVars(r) ==
  {<<"HELM_CONFIG_HOME=">> \o plugin[r].HelmHome,
   <<"HELM_CACHE_HOME=">> \o plugin[r].HelmHome \o <<"/", ".", "cache">>,
   <<"HELM_DATA_HOME=">> \o plugin[r].HelmHome \o <<"/", ".", "data">>}

\* C6: every helm subprocess sees the caller's whole environment plus the
\* three isolation variables.
C6_EnvInherited ==
  \A r \in Runs :
    \A i \in DOMAIN calls[r] :
      /\ Range(OsEnviron) \subseteq calls[r][i].env
      /\ IsolationVars(r) \subseteq calls[r][i].env

VersionRejected(r) == pc[r] \in {"cleanup", "done"} /\ err[r].kind = "version"

PullArgsShape(a, p) ==
  LET n == Len(a)
      hasVersion == p.ChartVersion # << >>
      hasRepo == p.ChartRepoURL # << >>
  IN /\ n = 5 + (IF hasVersion THEN 2 ELSE 0) + (IF hasRepo THEN 2 ELSE 0)
     /\ a[1] = <<"pull">>
     /\ a[2] = <<"--untar">>
     /\ a[3] = <<"--untardir">>
     /\ a[4] = p.ChartHome
     /\ hasVersion => a[5] = <<"--version">> /\ a[6] = p.ChartVersion
     /\ hasRepo => a[n - 2] = <<"--repo">> /\ a[n - 1] = p.ChartRepoURL
     /\ a[n] = IF hasRepo THEN p.ChartName
               ELSE p.ChartRepoName \o <<"/">> \o p.ChartName

\* C8: every pull invocation is pull --untar --untardir <chartHome>
\* [--version V] [--repo URL] <ref>, where <ref> is the bare chart name when
\* a repository URL is set and <repoName>/<chartName> otherwise.
C8_PullArgs ==
  \A r \in Runs :
    \A i \in DOMAIN calls[r] :
      calls[r][i].args[1] = PullCall =>
        /\ plugin[r].ChartRepoName # << >>
        /\ PullArgsShape(calls[r][i].args, plugin[r])

C8_Witness ==
  /\ Len(calls[1]) >= 2
  /\ calls[1][2].args[1] = PullCall
  /\ plugin[1].ChartRepoURL # << >>
  /\ plugin[1].ChartVersion # << >>
  /\ input[1].args.ChartRepoName # << >>

TemplateArgsShape(a, p) ==
  LET rel == IF p.ReleaseName # << >> THEN 1 ELSE 0
      ns == IF p.ReleaseNamespace # << >> THEN 2 ELSE 0
      vals == IF p.Values # << >> THEN 2 ELSE 0
      fixed == 2 + rel + ns + vals
  IN /\ Len(a) = fixed + Len(p.ExtraArgs)
     /\ a[1] = <<"template">>
     /\ rel = 1 => a[2] = p.ReleaseName
     /\ a[2 + rel] = PathJoin(<<p.ChartHome, p.ChartName>>)
     /\ ns = 2 => a[3 + rel] = <<"--namespace">> /\ a[4 + rel] = p.ReleaseNamespace
     /\ vals = 2 => a[3 + rel + ns] = <<"--values">> /\ a[4 + rel + ns] = p.Values
     /\ \A k \in 1..Len(p.ExtraArgs) : a[fixed + k] = p.ExtraArgs[k]

\* C9: the template argument list is template [release] <chartHome>/<chartName>
\* [--namespace NS] [--values PATH] followed by the extra arguments in
\* their order; the two flags are absent when their fields are empty.
C9_TemplateArgs ==
  argsOut.template # NoArgs => TemplateArgsShape(argsOut.template, argsIn)

C9_Witness ==
  /\ argsOut.template # NoArgs
  /\ argsIn.Values = << >>
  /\ argsIn.ReleaseNamespace = << >>
  /\ argsIn.ExtraArgs = <<<<"--values">>, <<"--debug">>>>

Live(r) == pc[r] \in {"version", "local", "pull", "template", "parse", "cleanup"}

DirsOf(r) == {plugin[r].tmpDir, plugin[r].ChartHome, plugin[r].HelmHome}

Related(x, d) == InsideTree(x, d) \/ InsideTree(d, x)

NoSharedAccess ==
  \A s \in Runs :
    (s # lastAccess.run /\ Live(s)) =>
      \A x \in lastAccess.paths : \A d \in DirsOf(s) : ~Related(x, d)

\* C10 as stated: no step of one run touches the working directory, chart
\* home or helm home of another run that is under way.
C10_NoSharedDirectory == NoSharedAccess

PlainName(name) == \A i \in DOMAIN name : name[i] \notin {"/", "..", "."}

HomesDefaulted ==
  \A r \in Runs :
    input[r].wellFormed =>
      /\ input[r].args.ChartHome = << >>
      /\ input[r].args.HelmHome = << >>
      /\ PlainName(input[r].args.ChartName)

\* C10 amended: when both runs leave chartHome and helmHome unset and name
\* the chart by a single path element, no step of one run touches a
\* directory of the other run that is under way.
C10_NoSharedDirectoryWhenDefaulted == HomesDefaulted => NoSharedAccess

C10_Witness ==
  /\ HomesDefaulted
  /\ lastAccess.run = 1
  /\ pc[1] = "template"
  /\ Len(calls[1]) = 2
  /\ calls[1][2].ok
  /\ pc[2] = "pull"

====
